---------------------------- MODULE Spec2Model ----------------------------
(***************************************************************************)
(* A model of pyglaz: the GlazLib session wrapper (pyglaz/wrapper.py), the *)
(* configuration-file search (pyglaz/utils.py) and the native call surface *)
(* it is bound to (pyglaz/_bindings.py).                                   *)
(*                                                                         *)
(* The native library is an opaque binary.  Every native call is an input  *)
(* of the model: the status it returns (or the ctypes exception it raises) *)
(* and whatever it writes through its output parameters are chosen with \E *)
(* from small sets.  Each wrapper method is one action; the action records *)
(* in `last` what the method was called with, the native calls it made in  *)
(* order, and how it ended.  Where threads share the session, a step is    *)
(* one native call of a method, and `threads` tells where each thread is.  *)
(***************************************************************************)
EXTENDS Integers, Sequences, FiniteSets, TLC

VARIABLES
    phase,        \* per GlazLib object: "absent", "live", "failed", "dead"
    initialized,  \* per object: self._initialized
    nativeMsg,    \* the native library's process-wide last-error message
    closeCalls,   \* per object: native closeSession calls made so far
    opened,       \* per object: its constructor completed without raising
    nat,          \* what the native library answers to the result getters
    sess,         \* the native library's process-wide session
    threads,      \* per thread: the method it is in, and where
    last          \* the most recent wrapper operation

vars ==
    <<phase, initialized, nativeMsg, closeCalls, opened, nat, sess, threads, last>>

---------------------------------------------------------------------------
(* Bounds of the model *)

NumInst == 2
MaxFiles == 1
MaxSize == 2
MaxDim == 2
MaxCloseCalls == 2
NumThreads == 2

Inst == 1..NumInst
Threads == 1..NumThreads

---------------------------------------------------------------------------
(* Native status codes, pyglaz/_bindings.py *)

ERROR_NONE == 0
ERROR_NOT_INITIALISED == 1
ERROR_SCRIPT == 2
ERROR_AUX_CYCLE_COUNT_INVALID == 40

\* The statuses the modelled native calls choose from: success, the one
\* status close() treats as benign, and two others.
StatusCodes ==
    {ERROR_NONE, ERROR_NOT_INITIALISED, ERROR_SCRIPT, ERROR_AUX_CYCLE_COUNT_INVALID}

\* How a foreign call ends: it returns an integer status, or ctypes raises
\* (an OSError on an access violation, an ArgumentError); neither is a
\* RuntimeError.
Returned(s) == [kind |-> "status", status |-> s]
Raised == [kind |-> "OSError", status |-> -1]
NativeOutcomes == {Returned(s) : s \in StatusCodes} \cup {Raised}

\* The message the native library leaves behind for a failing call: fn and
\* status tell which call wrote it; how the library words it is TextOf.
NoMsg == [fn |-> "", status |-> ERROR_NONE]
NativeMessage(fn, s) == [fn |-> fn, status |-> s]

\* The process-wide message after native call fn ended with outcome out.
MsgAfter(msg, fn, out) ==
    IF out.kind = "status" /\ out.status # ERROR_NONE
    THEN NativeMessage(fn, out.status)
    ELSE msg

\* The entry points that open the native session.
InitFns == {"initialiseSession", "initialiseSingleDeviceSession"}

\* The native session: whether it is open, whether an acquisition started
\* by startMeasurement is still in flight, and whether a measurement has
\* completed in it.
NoSession == [open |-> FALSE, acquiring |-> FALSE, measured |-> FALSE]
NewSession == [open |-> TRUE, acquiring |-> FALSE, measured |-> FALSE]

\* How native call fn may end in session s: without an open session every
\* call but the initialization answers ERROR_NOT_INITIALISED.
Answers(s, fn) ==
    IF s.open \/ fn \in InitFns
    THEN NativeOutcomes
    ELSE {Returned(ERROR_NOT_INITIALISED)}

\* The native session after call fn ended with outcome out.  A call that
\* answers ERROR_NOT_INITIALISED found no session; any other failing call
\* leaves the session as it was.  runMeasurement blocks until its
\* acquisition is complete; startMeasurement returns with the acquisition
\* in flight.
SessionAfter(s, fn, out) ==
    IF out = Returned(ERROR_NOT_INITIALISED) /\ fn \notin InitFns
    THEN [s EXCEPT !.open = FALSE]
    ELSE IF out # Returned(ERROR_NONE) THEN s
    ELSE IF fn \in InitFns THEN NewSession
    ELSE IF fn = "closeSession" THEN NoSession
    ELSE IF fn = "startMeasurement"
    THEN [s EXCEPT !.acquiring = TRUE, !.measured = FALSE]
    ELSE IF fn = "runMeasurement"
    THEN [s EXCEPT !.acquiring = FALSE, !.measured = TRUE]
    ELSE s

\* The native session after a method that made the calls of the log, the
\* first of which ended with out.
SessionAfterOp(s, calls, out) ==
    IF calls = <<>> THEN s ELSE SessionAfter(s, calls[1].fn, out)

\* What isMeasurementDone writes through its output parameter.
DoneAnswer(s) == ~s.acquiring

\* One entry of the log of native calls: the entry point, the values passed
\* to it, and the capacity of each buffer handed to it (<<>> when there is
\* none, or when None is passed for it).
Call(fn, args, bufs) == [fn |-> fn, args |-> args, bufs |-> bufs]

\* The entry points of a log, in call order.
Fns(calls) == [k \in DOMAIN calls |-> calls[k].fn]

\* How many calls of a log went to entry point fn.
Count(calls, fn) == Cardinality({k \in DOMAIN calls : calls[k].fn = fn})

\* A Python int, which has no width: PyInt(hi, lo) is hi * 2^32 + lo with lo
\* in the range of a C int; Py(n) is the int n of that range.
PyInt(hi, lo) == [hi |-> hi, lo |-> lo]
Py(n) == PyInt(0, n)

\* An argument declared c_int in argtypes: ctypes converts a Python int
\* without an overflow check and passes its low 32 bits as a C int.
c_int(v) == v.lo

\* _lib.setUSBParameters.restype = None: whatever the function does, the
\* call hands None back to its caller.
ReturnedNone == [kind |-> "None", status |-> -1]
VoidOutcomes == {ReturnedNone, Raised}

\* A thread that is in no method of the wrapper; otherwise the record holds
\* the method, the native calls it has made, its local size, the outcome of
\* the native call it has yet to act on, and the statement it is at: the
\* fetch of a getter, or the read-back of the message.
Idle == [pc |-> "idle", op |-> "none", calls |-> <<>>, size |-> 0, native |-> Raised]

---------------------------------------------------------------------------
(* get_last_error_message, wrapper.py *)

buffer_size == 1024

\* The wrapper's read-back: one getLastErrorMessage call with a buffer of
\* buffer_size bytes; the text returned is the process-wide message.
get_last_error_message(msg) ==
    [calls |-> <<Call("getLastErrorMessage", <<>>, <<buffer_size>>)>>, text |-> msg]

---------------------------------------------------------------------------
(* find_config_file, utils.py *)

\* A file name is a stem and its final extension; a file is a directory and
\* a name.  None is the absent config_file / config_name / config_path.
Name(stem, ext) == [stem |-> stem, ext |-> ext]
None == Name("<None>", "")
File(dir, name) == [dir |-> dir, name |-> name]
NoPath == File("<None>", None)

\* search_dirs when the caller gives none: <package>/../configs, the package
\* directory, the current working directory.
search_dirs == <<"configs", "pkg", "cwd">>

default_configs ==
    <<Name("single_spectrometer", ".xml"), Name("double_spectrometer", ".xml")>>

\* str.lower() of an extension.
Lower(ext) == IF ext = ".XML" THEN ".xml" ELSE ext

\* os.path.isfile(os.path.join(directory, name))
isfile(dir, name, fs) == File(dir, name) \in fs

\* FirstDir as it would be if the loop kept the last match.
FirstDir_last(name, fs) ==
    LET hits == {k \in DOMAIN search_dirs : isfile(search_dirs[k], name, fs)}
    IN  IF hits = {} THEN 0 ELSE CHOOSE k \in hits : \A j \in hits : k >= j

\* for directory in search_dirs: ... return filepath -- the first directory
\* holding name, 0 when the loop ends without a match.
FirstDir(name, fs) ==
    LET hits == {k \in DOMAIN search_dirs : isfile(search_dirs[k], name, fs)}
    IN  IF hits = {} THEN 0 ELSE CHOOSE k \in hits : \A j \in hits : k <= j

\* for config in default_configs: for directory in search_dirs: ...
FirstDefault(fs) ==
    LET hits == {c \in DOMAIN default_configs : FirstDir(default_configs[c], fs) # 0}
    IN  IF hits = {} THEN 0 ELSE CHOOSE c \in hits : \A j \in hits : c <= j

\* if not config_name.lower().endswith('.xml'): config_name += '.xml'
WithXml(name) ==
    IF Lower(name.ext) = ".xml" THEN name ELSE Name(name.stem, name.ext \o ".xml")

\* found = FALSE stands for raise FileNotFoundError.
find_config_file(config_name, fs) ==
    IF config_name = None
    THEN LET c == FirstDefault(fs)
         IN  IF c = 0
             THEN [found |-> FALSE, path |-> NoPath]
             ELSE [found |-> TRUE,
                   path |-> File(search_dirs[FirstDir(default_configs[c], fs)],
                                 default_configs[c])]
    ELSE LET n == WithXml(config_name)
             k == FirstDir(n, fs)
         IN  IF k = 0
             THEN [found |-> FALSE, path |-> NoPath]
             ELSE [found |-> TRUE, path |-> File(search_dirs[k], n)]

\* The files that may exist, and the file systems the model draws from.
FileNames ==
    {default_configs[1], default_configs[2], Name("custom", ".xml")}
Files == {File(search_dirs[k], n) : k \in DOMAIN search_dirs, n \in FileNames}
FileSystems == {fs \in SUBSET Files : Cardinality(fs) <= MaxFiles}

\* The config_file arguments the model draws from: a bare name, relative to
\* the current working directory, or None.
ConfigArgs ==
    {None, default_configs[1], Name("custom", ""), Name("custom", ".xml"),
     Name("custom", ".XML")}

---------------------------------------------------------------------------
(* GlazLib.__init__, wrapper.py *)

GLAZ_LINESCAN_I_PULSESYNC_S10453_SINGLE_DEVICE_TYPE == 1
GLAZ_LINESCAN_II_V2_SINGLE_DEVICE_TYPE == 6

\* device_type, use_defaults, allow_demo: the defaults, and one other choice.
DeviceArgs ==
    {[device_type |-> GLAZ_LINESCAN_II_V2_SINGLE_DEVICE_TYPE,
      use_defaults |-> TRUE, allow_demo |-> TRUE],
     [device_type |-> GLAZ_LINESCAN_I_PULSESYNC_S10453_SINGLE_DEVICE_TYPE,
      use_defaults |-> FALSE, allow_demo |-> FALSE]}

\* The message of a RuntimeError built from str(e) of another exception, and
\* of a FileNotFoundError: neither is a native message.
OtherText == [fn |-> "<exception>", status |-> -1]

\* What a method returns: up to two containers and a size; NoRet for the
\* methods that return nothing, and when a method raises.
Ret(data, data2, size) == [data |-> data, data2 |-> data2, size |-> size]
NoRet == Ret(<<>>, <<>>, 0)

\* How a method ends: it returns ret, or raises outcome carrying err.
EndsWith(flag, calls, outcome, err, msg, ret) ==
    [initialized |-> flag, calls |-> calls, outcome |-> outcome, err |-> err,
     msg |-> msg, ret |-> ret]
Ends(flag, calls, outcome, err, msg) ==
    EndsWith(flag, calls, outcome, err, msg, NoRet)

\* ResolveConfig as it would be if a named file that is not found were
\* treated like the absent default: config_path = None.
ResolveConfig_fallback(config_file, fs) ==
    IF config_file # None /\ isfile("cwd", config_file, fs)
    THEN [found |-> TRUE, path |-> File(".", config_file)]
    ELSE [found |-> TRUE, path |-> find_config_file(config_file, fs).path]

\* Lines 38-52: the configuration path, or FileNotFoundError, or None.
\* A bare config_file is looked up in the current working directory by
\* os.path.isfile and is then used as it is.
ResolveConfig(config_file, fs) ==
    IF config_file # None
    THEN IF isfile("cwd", config_file, fs)
         THEN [found |-> TRUE, path |-> File(".", config_file)]
         ELSE find_config_file(config_file, fs)
    ELSE [found |-> TRUE, path |-> find_config_file(None, fs).path]

\* Lines 55-67: the native entry point the path selects, and its arguments.
InitCall(config_path, dev) ==
    IF config_path # NoPath
    THEN Call("initialiseSession", <<config_path>>, <<>>)
    ELSE Call("initialiseSingleDeviceSession",
              <<dev.device_type, dev.use_defaults, dev.allow_demo>>, <<>>)

\* InitAfterCall as it would be without the status checks of lines 58
\* and 65.
InitAfterCall_unchecked(call, out, msg) ==
    LET msg1 == MsgAfter(msg, call.fn, out)
    IN  IF out.kind # "status"
        THEN Ends(FALSE, <<call>>, "RuntimeError", OtherText, msg1)
        ELSE Ends(TRUE, <<call>>, "return", NoMsg, msg1)

\* Lines 57-69 and the handler of lines 71-77: the native call has ended
\* with out.
InitAfterCall(call, out, msg) ==
    LET msg1 == MsgAfter(msg, call.fn, out)
        read == get_last_error_message(msg1)
    IN  IF out.kind # "status"
        THEN Ends(FALSE, <<call>>, "RuntimeError", OtherText, msg1)
        ELSE IF out.status # ERROR_NONE
        THEN Ends(FALSE, <<call>> \o read.calls, "RuntimeError", read.text, msg1)
        ELSE Ends(TRUE, <<call>>, "return", NoMsg, msg1)

\* init_body as it would be if a failed initialiseSession went on to the
\* device-type initialization.
init_body_both(config_file, dev, fs, out, msg) ==
    LET r == ResolveConfig(config_file, fs)
        first == InitCall(r.path, dev)
        second == InitCall(NoPath, dev)
        a == InitAfterCall(first, out, msg)
        b == InitAfterCall(second, out, a.msg)
    IN  IF ~r.found
        THEN Ends(FALSE, <<>>, "FileNotFoundError", OtherText, msg)
        ELSE IF a.outcome = "return" \/ r.path = NoPath
        THEN a
        ELSE Ends(b.initialized, a.calls \o b.calls, b.outcome, b.err, b.msg)

\* The whole constructor.
init_body(config_file, dev, fs, out, msg) ==
    LET r == ResolveConfig(config_file, fs)
    IN  IF ~r.found
        THEN Ends(FALSE, <<>>, "FileNotFoundError", OtherText, msg)
        ELSE InitAfterCall(InitCall(r.path, dev), out, msg)

---------------------------------------------------------------------------
(* GlazLib.close and GlazLib.__del__, wrapper.py *)

\* The allow-list as it would be if it were empty.
BenignCloseStatuses_none == {}

\* Line 109: the statuses close() does not raise for.
BenignCloseStatuses == {ERROR_NOT_INITIALISED}

\* CloseAfterCall as it would be without line 114: an exception out of the
\* try block leaves _initialized as it was unless line 101 was reached.
CloseAfterCall_noReset(out, msg) ==
    LET call == Call("closeSession", <<>>, <<>>)
        msg1 == MsgAfter(msg, call.fn, out)
        read == get_last_error_message(msg1)
    IN  IF out.kind # "status"
        THEN Ends(TRUE, <<call>>, "return", NoMsg, msg1)
        ELSE IF out.status = ERROR_NONE
        THEN Ends(FALSE, <<call>>, "return", NoMsg, msg1)
        ELSE IF out.status \in {ERROR_NOT_INITIALISED}
        THEN Ends(FALSE, <<call>> \o read.calls, "return", NoMsg, msg1)
        ELSE Ends(FALSE, <<call>> \o read.calls, "RuntimeError", read.text, msg1)

\* Lines 97-118: the session is open and closeSession has ended with out.
CloseAfterCall(out, msg) ==
    LET call == Call("closeSession", <<>>, <<>>)
        msg1 == MsgAfter(msg, call.fn, out)
        read == get_last_error_message(msg1)
    IN  IF out.kind # "status"
        THEN Ends(FALSE, <<call>>, "return", NoMsg, msg1)
        ELSE IF out.status = ERROR_NONE
        THEN Ends(FALSE, <<call>>, "return", NoMsg, msg1)
        ELSE IF out.status \in BenignCloseStatuses
        THEN Ends(FALSE, <<call>> \o read.calls, "return", NoMsg, msg1)
        ELSE Ends(FALSE, <<call>> \o read.calls, "RuntimeError", read.text, msg1)

\* close() as it would be without the guard of lines 93-94.
close_body_unguarded(flag, out, msg) ==
    CloseAfterCall(out, msg)

\* The whole of close(): lines 93-94 are the guard.
close_body(flag, out, msg) ==
    IF ~flag
    THEN Ends(flag, <<>>, "return", NoMsg, msg)
    ELSE CloseAfterCall(out, msg)

---------------------------------------------------------------------------
(* The variable-length getters, wrapper.py: what the native library answers *)

ERROR_INVALID_CALCULATION_INDEX == 15

\* The statuses the native getters choose from.
GetterStatuses == {ERROR_NONE, ERROR_INVALID_CALCULATION_INDEX}

\* The counts a size query reports, the count the fetch call leaves in the
\* size parameter it is passed by reference, and the two counts of
\* getAllScansSizes.
Sizes == (-1)..MaxSize
FetchSizes == (-1)..(MaxSize + 1)
Dims == (-1)..MaxDim

\* What the native library writes into element k (from 1) of a buffer.
Fills == {"ramp", "alt"}
Sample(fill, k) == IF fill = "ramp" THEN k ELSE k % 2

\* The answers of the native library to one getter: to the size query
\* (qstatus, qsize), to the fetch (fstatus, fsize, fill), to getAllScansSizes
\* (zstatus, num_scans, pixels_per_scan) and to getAllScans (astatus, fill);
\* and how it words its error messages (texts).
DefaultScript ==
    [qstatus |-> ERROR_NONE, qsize |-> 0, fstatus |-> ERROR_NONE, fsize |-> 0,
     fill |-> "ramp", zstatus |-> ERROR_NONE, num_scans |-> 0,
     pixels_per_scan |-> 0, astatus |-> ERROR_NONE, texts |-> "detailed"]

\* The text of message m, as the library words it: a text that names the
\* failing call and its status, or the same text for every failure.
TextTables == {"detailed", "plain"}
TextOf(table, m) ==
    IF table = "detailed" THEN <<m.fn, m.status>> ELSE <<"error", 0>>

SizedScripts ==
    {[DefaultScript EXCEPT !.qstatus = a, !.qsize = n, !.fstatus = b,
                           !.fsize = m, !.fill = f] :
        a \in GetterStatuses, n \in Sizes, b \in GetterStatuses,
        m \in FetchSizes, f \in Fills}

MatrixScripts ==
    {[DefaultScript EXCEPT !.zstatus = a, !.num_scans = r, !.pixels_per_scan = c,
                           !.astatus = b, !.fill = f] :
        a \in GetterStatuses, r \in Dims, c \in Dims, b \in GetterStatuses,
        f \in Fills}

\* The index, scan_index and channel arguments the model passes.
Indices == {0, 1}

\* data = (c_type * cap)() once the native call has filled it; the second
\* buffer of a complex getter holds the imaginary parts.
RealBuffer(cap, fill) == [k \in 1..cap |-> Sample(fill, k)]
ImagBuffer(cap, fill) == [k \in 1..cap |-> 0 - Sample(fill, k) - 1]

\* [data[i] for i in range(size)]: a ctypes array raises IndexError for an
\* index at or beyond its length.  ok = FALSE stands for that IndexError.
ReadOut(buf, size) ==
    IF size > Len(buf)
    THEN [ok |-> FALSE, data |-> <<>>]
    ELSE [ok |-> TRUE, data |-> SubSeq(buf, 1, size)]

\* bool(states[i]) for the auxiliary states; the other getters keep the
\* element as it is read.
Convert(elem, data) ==
    IF elem = "bool" THEN [k \in DOMAIN data |-> data[k] # 0] ELSE data

\* NoData as it would be if only a negative count meant "no data".
NoData_negativeOnly(n) == n < 0

\* if size.value <= 0: return the empty result (line 544; line 709 applies it
\* to each of the two counts).
NoData(n) == n <= 0

\* Capacity as it would be with one spare element.
Capacity_spare(n) == n + 1

\* (c_double * size.value)(): the length of each buffer allocated for a
\* queried count of n (line 547).
Capacity(n) == n

\* The two-phase protocol shared by get_result, get_complex_result, get_scan,
\* get_complex_scan, get_pd_values, get_aux_states and get_aux_cycle_counts
\* (lines 538-553 for get_result): the size query with no buffer, the early
\* return for a count <= 0, nbuf buffers of size.value elements, the fetch
\* with the same size object passed by reference, and the read-out of
\* range(size.value) elements.
TwoPhase(fn, args, nbuf, elem, flag, script, msg) ==
    LET query == Call(fn, args, <<>>)
        msg1 == MsgAfter(msg, fn, Returned(script.qstatus))
        read1 == get_last_error_message(msg1)
        cap == Capacity(script.qsize)
        fetch == Call(fn, args, [b \in 1..nbuf |-> cap])
        msg2 == MsgAfter(msg1, fn, Returned(script.fstatus))
        read2 == get_last_error_message(msg2)
        size == script.fsize
        re == ReadOut(RealBuffer(cap, script.fill), size)
        im == ReadOut(ImagBuffer(cap, script.fill), size)
    IN  IF script.qstatus # ERROR_NONE
        THEN Ends(flag, <<query>> \o read1.calls, "RuntimeError", read1.text, msg1)
        ELSE IF NoData(script.qsize)
        THEN EndsWith(flag, <<query>>, "return", NoMsg, msg1, Ret(<<>>, <<>>, 0))
        ELSE IF script.fstatus # ERROR_NONE
        THEN Ends(flag, <<query, fetch>> \o read2.calls, "RuntimeError",
                  read2.text, msg2)
        ELSE IF ~re.ok
        THEN Ends(flag, <<query, fetch>>, "IndexError", OtherText, msg2)
        ELSE EndsWith(flag, <<query, fetch>>, "return", NoMsg, msg2,
                      Ret(Convert(elem, re.data),
                          IF nbuf = 2 THEN Convert(elem, im.data) ELSE <<>>,
                          size))

\* Reshape as it would be in column-major (Fortran) order.
Reshape_columnMajor(flat, num_scans, pixels_per_scan) ==
    [r \in 1..num_scans |->
        [c \in 1..pixels_per_scan |-> flat[(c - 1) * num_scans + r]]]

\* array_data.reshape((num_scans, pixels_per_scan)): numpy's default (C)
\* order cuts the flat array into num_scans consecutive runs of
\* pixels_per_scan elements.
Reshape(flat, num_scans, pixels_per_scan) ==
    [r \in 1..num_scans |->
        SubSeq(flat, (r - 1) * pixels_per_scan + 1, r * pixels_per_scan)]

\* get_all_scans (lines 708-721) with get_all_scans_sizes (lines 687-693)
\* inlined.
all_scans_body(index, flag, script, msg) ==
    LET sizes == Call("getAllScansSizes", <<index>>, <<>>)
        msg1 == MsgAfter(msg, sizes.fn, Returned(script.zstatus))
        read1 == get_last_error_message(msg1)
        num_scans == script.num_scans
        pixels_per_scan == script.pixels_per_scan
        total_size == num_scans * pixels_per_scan
        fetch == Call("getAllScans", <<index>>, <<total_size>>)
        msg2 == MsgAfter(msg1, fetch.fn, Returned(script.astatus))
        read2 == get_last_error_message(msg2)
        array_data == ReadOut(RealBuffer(total_size, script.fill), total_size).data
    IN  IF script.zstatus # ERROR_NONE
        THEN Ends(flag, <<sizes>> \o read1.calls, "RuntimeError", read1.text, msg1)
        ELSE IF NoData(num_scans) \/ NoData(pixels_per_scan)
        THEN EndsWith(flag, <<sizes>>, "return", NoMsg, msg1, Ret(<<>>, <<>>, 0))
        ELSE IF script.astatus # ERROR_NONE
        THEN Ends(flag, <<sizes, fetch>> \o read2.calls, "RuntimeError",
                  read2.text, msg2)
        ELSE EndsWith(flag, <<sizes, fetch>>, "return", NoMsg, msg2,
                      Ret(Reshape(array_data, num_scans, pixels_per_scan),
                          <<>>, total_size))

---------------------------------------------------------------------------
(* The session life cycle: objects are constructed, closed and destroyed *)

\* The record of one wrapper operation: the method, the object, the value of
\* _initialized when it was entered, its arguments and environment, the
\* outcome of its own native call (when it makes one), and how it ended.
Op(op, inst, pre, arg, native, r) ==
    [op |-> op, inst |-> inst, pre |-> pre, arg |-> arg, native |-> native,
     calls |-> r.calls, outcome |-> r.outcome, err |-> r.err, ret |-> r.ret]

NoArg ==
    [config_file |-> None, dev |-> CHOOSE d \in DeviceArgs : TRUE, fs |-> {},
     value |-> <<>>]

Init ==
    /\ phase = [i \in Inst |-> "absent"]
    /\ initialized = [i \in Inst |-> FALSE]
    /\ nativeMsg = NoMsg
    /\ closeCalls = [i \in Inst |-> 0]
    /\ opened = [i \in Inst |-> FALSE]
    /\ nat = DefaultScript
    /\ sess = NoSession
    /\ threads = [t \in Threads |-> Idle]
    /\ last = Op("none", 0, FALSE, NoArg, Raised,
                 Ends(FALSE, <<>>, "return", NoMsg, NoMsg))

\* glaz = GlazLib(config_file, device_type, use_defaults, allow_demo): a new
\* object, in a free slot or in the slot of an object that is gone.
ConstructWith(i, configs, devs, systems) ==
    /\ phase[i] \in {"absent", "dead"}
    /\ \E config_file \in configs, dev \in devs, fs \in systems,
          out \in NativeOutcomes :
          LET r == init_body(config_file, dev, fs, out, nativeMsg)
          IN  /\ initialized' = [initialized EXCEPT ![i] = r.initialized]
              /\ phase' = [phase EXCEPT
                              ![i] = IF r.outcome = "return" THEN "live" ELSE "failed"]
              /\ opened' = [opened EXCEPT ![i] = (r.outcome = "return")]
              /\ nativeMsg' = r.msg
              /\ sess' = SessionAfterOp(sess, r.calls, out)
              /\ last' = Op("__init__", i, FALSE,
                            [config_file |-> config_file, dev |-> dev, fs |-> fs,
                             value |-> <<>>],
                            out, r)
    /\ closeCalls' = [closeCalls EXCEPT ![i] = 0]
    /\ UNCHANGED <<nat, threads>>

Construct(i) == ConstructWith(i, ConfigArgs, DeviceArgs, FileSystems)

\* glaz.close()
Close(i) ==
    /\ phase[i] = "live"
    /\ closeCalls[i] < MaxCloseCalls
    /\ \E out \in Answers(sess, "closeSession") :
          LET r == close_body(initialized[i], out, nativeMsg)
          IN  /\ initialized' = [initialized EXCEPT ![i] = r.initialized]
              /\ closeCalls' = [closeCalls EXCEPT
                                   ![i] = @ + Count(r.calls, "closeSession")]
              /\ nativeMsg' = r.msg
              /\ sess' = SessionAfterOp(sess, r.calls, out)
              /\ last' = Op("close", i, initialized[i], NoArg, out, r)
    /\ UNCHANGED <<phase, opened, nat, threads>>

\* __del__ as it would be if it did not call close().
Del_noClose(i) ==
    /\ phase[i] \in {"live", "failed"}
    /\ phase' = [phase EXCEPT ![i] = "dead"]
    /\ last' = Op("__del__", i, initialized[i], NoArg, Raised,
                  Ends(initialized[i], <<>>, "return", NoMsg, nativeMsg))
    /\ UNCHANGED <<initialized, nativeMsg, closeCalls, opened, nat, sess, threads>>

\* __del__: the object is destroyed, whether its constructor completed or
\* raised; it calls close(), and what close() raises there is not propagated.
Del(i) ==
    /\ phase[i] \in {"live", "failed"}
    /\ closeCalls[i] < MaxCloseCalls
    /\ \E out \in Answers(sess, "closeSession") :
          LET r == close_body(initialized[i], out, nativeMsg)
          IN  /\ initialized' = [initialized EXCEPT ![i] = r.initialized]
              /\ closeCalls' = [closeCalls EXCEPT
                                   ![i] = @ + Count(r.calls, "closeSession")]
              /\ nativeMsg' = r.msg
              /\ sess' = SessionAfterOp(sess, r.calls, out)
              /\ last' = Op("__del__", i, initialized[i], NoArg, out, r)
    /\ phase' = [phase EXCEPT ![i] = "dead"]
    /\ UNCHANGED <<opened, nat, threads>>

\* StatusCall as it would be if it made a failing call a second time.
StatusCall_retry(flag, call, out, msg) ==
    LET msg1 == MsgAfter(msg, call.fn, out)
        read == get_last_error_message(msg1)
    IN  IF out.kind # "status"
        THEN Ends(flag, <<call>>, out.kind, OtherText, msg1)
        ELSE IF out.status # ERROR_NONE
        THEN Ends(flag, <<call, call>> \o read.calls, "RuntimeError", read.text, msg1)
        ELSE Ends(flag, <<call>>, "return", NoMsg, msg1)

\* StatusCall as it would be if it raised without reading the message.
StatusCall_unread(flag, call, out, msg) ==
    LET msg1 == MsgAfter(msg, call.fn, out)
    IN  IF out.kind # "status"
        THEN Ends(flag, <<call>>, out.kind, OtherText, msg1)
        ELSE IF out.status # ERROR_NONE
        THEN Ends(flag, <<call>>, "RuntimeError", NoMsg, msg1)
        ELSE Ends(flag, <<call>>, "return", NoMsg, msg1)

\* StatusCall as it would be if a failing call invalidated the session.
StatusCall_invalidating(flag, call, out, msg) ==
    LET msg1 == MsgAfter(msg, call.fn, out)
        read == get_last_error_message(msg1)
    IN  IF out.kind # "status"
        THEN Ends(flag, <<call>>, out.kind, OtherText, msg1)
        ELSE IF out.status # ERROR_NONE
        THEN Ends(FALSE, <<call>> \o read.calls, "RuntimeError", read.text, msg1)
        ELSE Ends(flag, <<call>>, "return", NoMsg, msg1)

\* Every method that makes one status-returning native call and has no
\* handler of its own: a ctypes exception propagates, a status other than
\* ERROR_NONE is turned into a RuntimeError carrying the message read back.
StatusCall(flag, call, out, msg) ==
    LET msg1 == MsgAfter(msg, call.fn, out)
        read == get_last_error_message(msg1)
    IN  IF out.kind # "status"
        THEN Ends(flag, <<call>>, out.kind, OtherText, msg1)
        ELSE IF out.status # ERROR_NONE
        THEN Ends(flag, <<call>> \o read.calls, "RuntimeError", read.text, msg1)
        ELSE Ends(flag, <<call>>, "return", NoMsg, msg1)

\* The entry point run_measurement calls, had it been the one that returns
\* with the acquisition in flight.
RunEntry_async == "startMeasurement"

\* The entry point run_measurement calls.
RunEntry == "runMeasurement"

\* The scan counts the model passes: the example's value, two values
\* outside any legal range, and one outside the range of a C int.
ScanCounts == {Py(10), Py(0), Py(-1), PyInt(1, 10)}

\* A method of object i that is one StatusCall, called with the arguments
\* value.
StatusOpWith(i, op, value, call) ==
    /\ phase[i] = "live"
    /\ \E out \in Answers(sess, call.fn) :
          LET r == StatusCall(initialized[i], call, out, nativeMsg)
          IN  /\ initialized' = [initialized EXCEPT ![i] = r.initialized]
              /\ nativeMsg' = r.msg
              /\ sess' = SessionAfter(sess, call.fn, out)
              /\ last' = Op(op, i, initialized[i], [NoArg EXCEPT !.value = value],
                            out, r)
    /\ UNCHANGED <<phase, closeCalls, opened, nat, threads>>

\* A method without arguments that is one StatusCall.
StatusOp(i, op, call) == StatusOpWith(i, op, <<>>, call)

\* glaz.set_scan_count(count)
set_scan_count_with(i, count) ==
    StatusOpWith(i, "set_scan_count", <<count>>,
                 Call("setScanCount", <<c_int(count)>>, <<>>))

set_scan_count(i) == \E count \in ScanCounts : set_scan_count_with(i, count)

\* glaz.run_measurement()
run_measurement(i) ==
    StatusOp(i, "run_measurement", Call(RunEntry, <<>>, <<>>))

\* The trigger modes: TRIGGER_EXTERNAL, TRIGGER_INTERNAL, TRIGGER_BURST.
TriggerModes == {Py(0), Py(1), Py(2)}

\* glaz.set_trigger_mode(mode)
set_trigger_mode_with(i, mode) ==
    StatusOpWith(i, "set_trigger_mode", <<mode>>,
                 Call("setTriggerMode", <<c_int(mode)>>, <<>>))

set_trigger_mode(i) == \E mode \in TriggerModes : set_trigger_mode_with(i, mode)

\* The frequencies the model passes, in Hz.
Frequencies == {100, 0}

\* glaz.set_internal_trigger_frequency(frequency)
set_internal_trigger_frequency_with(i, frequency) ==
    StatusOpWith(i, "set_internal_trigger_frequency", <<frequency>>,
                 Call("setInternalTriggerFrequency", <<frequency>>, <<>>))

set_internal_trigger_frequency(i) == \E frequency \in Frequencies : set_internal_trigger_frequency_with(i, frequency)

\* The averaging factors the model passes.
Averagings == {Py(8), Py(16)}

\* glaz.set_hardware_averaging(averaging)
set_hardware_averaging_with(i, averaging) ==
    StatusOpWith(i, "set_hardware_averaging", <<averaging>>,
                 Call("setHardwareAveraging", <<c_int(averaging)>>, <<>>))

set_hardware_averaging(i) == \E averaging \in Averagings : set_hardware_averaging_with(i, averaging)

\* The library versions the model draws from.
Versions == {<<1, 0>>, <<2, 3>>}

\* glaz.get_version(): getVersion returns nothing; the values it wrote
\* through its two output parameters are returned.
get_version(i) ==
    /\ phase[i] = "live"
    /\ \E v \in Versions :
          last' = Op("get_version", i, initialized[i], NoArg, Returned(ERROR_NONE),
                     EndsWith(initialized[i], <<Call("getVersion", <<>>, <<1, 1>>)>>,
                              "return", NoMsg, nativeMsg, Ret(v, <<>>, 0)))
    /\ UNCHANGED <<phase, initialized, nativeMsg, closeCalls, opened, nat, sess, threads>>

\* The numbers of backgrounds the model passes: the example's value, the
\* default, and one outside any legal range.
BackgroundCounts == {Py(5), Py(1), Py(0)}

\* glaz.capture_background(count)
capture_background_with(i, count) ==
    StatusOpWith(i, "capture_background", <<count>>,
                 Call("captureBackground", <<c_int(count)>>, <<>>))

capture_background(i) == \E count \in BackgroundCounts : capture_background_with(i, count)

\* glaz.start_measurement()
start_measurement(i) ==
    StatusOp(i, "start_measurement", Call("startMeasurement", <<>>, <<>>))

\* is_measurement_done_body as it would be if it returned whether the
\* query succeeded, not the value the query wrote.
is_measurement_done_body_status(flag, out, done, msg) ==
    LET r == StatusCall(flag, Call("isMeasurementDone", <<>>, <<1>>), out, msg)
    IN  IF r.outcome = "return"
        THEN EndsWith(flag, r.calls, "return", NoMsg, r.msg, Ret(<<TRUE>>, <<>>, 0))
        ELSE r

\* is_measurement_done: one StatusCall that hands the native call a c_bool
\* by reference and returns the value found in it.
is_measurement_done_body(flag, out, done, msg) ==
    LET r == StatusCall(flag, Call("isMeasurementDone", <<>>, <<1>>), out, msg)
    IN  IF r.outcome = "return"
        THEN EndsWith(flag, r.calls, "return", NoMsg, r.msg, Ret(<<done>>, <<>>, 0))
        ELSE r

\* glaz.is_measurement_done()
is_measurement_done(i) ==
    /\ phase[i] = "live"
    /\ \E out \in Answers(sess, "isMeasurementDone") :
          LET r == is_measurement_done_body(initialized[i], out,
                                            DoneAnswer(sess), nativeMsg)
          IN  /\ initialized' = [initialized EXCEPT ![i] = r.initialized]
              /\ nativeMsg' = r.msg
              /\ sess' = SessionAfter(sess, "isMeasurementDone", out)
              /\ last' = Op("is_measurement_done", i, initialized[i], NoArg, out, r)
    /\ UNCHANGED <<phase, closeCalls, opened, nat, threads>>

\* The acquisition started by startMeasurement completes in the native
\* library; no wrapper method is involved.
Complete ==
    /\ sess.open /\ sess.acquiring
    /\ sess' = [sess EXCEPT !.acquiring = FALSE, !.measured = TRUE]
    /\ UNCHANGED <<phase, initialized, nativeMsg, closeCalls, opened, nat, last, threads>>

\* A getter of object i ended as r: only the native message and the record
\* of the operation change.
Got(i, op, r) ==
    /\ nativeMsg' = r.msg
    /\ last' = Op(op, i, initialized[i], NoArg, Returned(nat.qstatus), r)
    /\ UNCHANGED <<phase, initialized, closeCalls, opened, nat, sess, threads>>

\* glaz.get_result(index)
get_result(i) ==
    /\ phase[i] = "live"
    /\ \E index \in Indices :
          Got(i, "get_result",
              TwoPhase("getResult", <<index>>, 1, "double",
                       initialized[i], nat, nativeMsg))

\* glaz.get_complex_result(index)
get_complex_result(i) ==
    /\ phase[i] = "live"
    /\ \E index \in Indices :
          Got(i, "get_complex_result",
              TwoPhase("getComplexResult", <<index>>, 2, "double",
                       initialized[i], nat, nativeMsg))

\* glaz.get_scan(index, scan_index)
get_scan(i) ==
    /\ phase[i] = "live"
    /\ \E index \in Indices, scan_index \in Indices :
          Got(i, "get_scan",
              TwoPhase("getScan", <<index, scan_index>>, 1, "double",
                       initialized[i], nat, nativeMsg))

\* glaz.get_complex_scan(index, scan_index)
get_complex_scan(i) ==
    /\ phase[i] = "live"
    /\ \E index \in Indices, scan_index \in Indices :
          Got(i, "get_complex_scan",
              TwoPhase("getComplexScan", <<index, scan_index>>, 2, "double",
                       initialized[i], nat, nativeMsg))

\* glaz.get_pd_values(index, channel)
get_pd_values(i) ==
    /\ phase[i] = "live"
    /\ \E index \in Indices, channel \in Indices :
          Got(i, "get_pd_values",
              TwoPhase("getPDValues", <<index, channel>>, 1, "double",
                       initialized[i], nat, nativeMsg))

\* glaz.get_aux_states(index)
get_aux_states(i) ==
    /\ phase[i] = "live"
    /\ \E index \in Indices :
          Got(i, "get_aux_states",
              TwoPhase("getAUXStates", <<index>>, 1, "bool",
                       initialized[i], nat, nativeMsg))

\* glaz.get_aux_cycle_counts(index, channel)
get_aux_cycle_counts(i) ==
    /\ phase[i] = "live"
    /\ \E index \in Indices, channel \in Indices :
          Got(i, "get_aux_cycle_counts",
              TwoPhase("getAUXCycleCounts", <<index, channel>>, 1, "int",
                       initialized[i], nat, nativeMsg))

\* glaz.get_all_scans(index)
get_all_scans(i) ==
    /\ phase[i] = "live"
    /\ \E index \in Indices :
          LET r == all_scans_body(index, initialized[i], nat, nativeMsg)
          IN  /\ nativeMsg' = r.msg
              /\ last' = Op("get_all_scans", i, initialized[i], NoArg,
                            Returned(nat.zstatus), r)
              /\ UNCHANGED <<phase, initialized, closeCalls, opened, nat, sess, threads>>

\* get_all_scans_sizes (lines 687-693).
all_scans_sizes_body(index, flag, script, msg) ==
    LET sizes == Call("getAllScansSizes", <<index>>, <<1, 1>>)
        msg1 == MsgAfter(msg, sizes.fn, Returned(script.zstatus))
        read1 == get_last_error_message(msg1)
    IN  IF script.zstatus # ERROR_NONE
        THEN Ends(flag, <<sizes>> \o read1.calls, "RuntimeError", read1.text, msg1)
        ELSE EndsWith(flag, <<sizes>>, "return", NoMsg, msg1,
                      Ret(<<script.num_scans, script.pixels_per_scan>>, <<>>, 0))

\* glaz.get_all_scans_sizes(index)
get_all_scans_sizes(i) ==
    /\ phase[i] = "live"
    /\ \E index \in Indices :
          LET r == all_scans_sizes_body(index, initialized[i], nat, nativeMsg)
          IN  /\ nativeMsg' = r.msg
              /\ last' = Op("get_all_scans_sizes", i, initialized[i], NoArg,
                            Returned(nat.zstatus), r)
              /\ UNCHANGED <<phase, initialized, closeCalls, opened, nat, sess, threads>>

\* status != lib.ERROR_NONE, as Python evaluates it: None is not equal to 0.
NotErrorNone(out) == out.kind # "status" \/ out.status # ERROR_NONE

\* set_usb_parameters (lines 173-176): status is what the call handed back;
\* a ctypes exception propagates.
set_usb_parameters_body(flag, call, out, msg) ==
    LET msg1 == MsgAfter(msg, call.fn, out)
        read == get_last_error_message(msg1)
    IN  IF out = Raised
        THEN Ends(flag, <<call>>, out.kind, OtherText, msg1)
        ELSE IF NotErrorNone(out)
        THEN Ends(flag, <<call>> \o read.calls, "RuntimeError", read.text, msg1)
        ELSE Ends(flag, <<call>>, "return", NoMsg, msg1)

\* The timeout, bulk_size and queue_size the model passes.
UsbParameters == {<<Py(1000), Py(512), Py(16)>>, <<Py(0), Py(0), Py(0)>>}

\* glaz.set_usb_parameters(timeout, bulk_size, queue_size)
set_usb_parameters(i) ==
    /\ phase[i] = "live"
    /\ \E p \in UsbParameters, out \in VoidOutcomes :
          LET call == Call("setUSBParameters",
                           <<c_int(p[1]), c_int(p[2]), c_int(p[3])>>, <<>>)
              r == set_usb_parameters_body(initialized[i], call, out, nativeMsg)
          IN  /\ nativeMsg' = r.msg
              /\ last' = Op("set_usb_parameters", i, initialized[i],
                            [NoArg EXCEPT !.value = p], out, r)
    /\ UNCHANGED <<phase, initialized, closeCalls, opened, nat, sess, threads>>

\* An open session that is configured: one constructed object.
InitConfig ==
    /\ phase = [i \in Inst |-> IF i = 1 THEN "live" ELSE "absent"]
    /\ initialized = [i \in Inst |-> i = 1]
    /\ nativeMsg = NoMsg
    /\ closeCalls = [i \in Inst |-> 0]
    /\ opened = [i \in Inst |-> i = 1]
    /\ nat = DefaultScript
    /\ sess = NewSession
    /\ threads = [t \in Threads |-> Idle]
    /\ last = Op("none", 0, FALSE, NoArg, Raised,
                 Ends(FALSE, <<>>, "return", NoMsg, NoMsg))

\* The configuration calls, in any order.
NextConfig ==
    \/ set_usb_parameters(1)
    \/ set_hardware_averaging(1)
    \/ set_scan_count(1)
    \/ set_trigger_mode(1)
    \/ set_internal_trigger_frequency(1)

SpecConfig == InitConfig /\ [][NextConfig]_vars

\* The file systems find_config_file is called in on its own.
MaxFound == 2
FoundSystems == {fs \in SUBSET Files : Cardinality(fs) <= MaxFound}

\* find_config_file(config_name): the path is returned, or FileNotFoundError
\* is raised; no object and no native call is involved.
FindConfigFile ==
    /\ \E config_name \in ConfigArgs, fs \in FoundSystems :
          LET r == find_config_file(config_name, fs)
          IN  last' = Op("find_config_file", 0, FALSE,
                         [config_file |-> config_name, dev |-> NoArg.dev, fs |-> fs,
                          value |-> <<>>],
                         Raised,
                         IF r.found
                         THEN EndsWith(FALSE, <<>>, "return", NoMsg, nativeMsg,
                                       Ret(<<r.path>>, <<>>, 0))
                         ELSE Ends(FALSE, <<>>, "FileNotFoundError", OtherText,
                                   nativeMsg))
    /\ UNCHANGED <<phase, initialized, nativeMsg, closeCalls, opened, nat, sess, threads>>

SpecFind == Init /\ [][FindConfigFile]_vars

---------------------------------------------------------------------------
(* Threads that share one session: a step is one native call of a method, *)
(* with the statements that follow it up to the next native call          *)

\* What the native library answers to get_result in a session that
\* measures: the size query and the fetch report the count of the result
\* the library holds, and the fetch succeeds.
ThreadScripts ==
    {[DefaultScript EXCEPT !.qstatus = a, !.qsize = n, !.fsize = n] :
        a \in GetterStatuses, n \in 0..MaxSize}

\* The method of thread t ends: the thread is in no method again, and the
\* method is recorded as the most recent operation.
MethodEnds(t, op, native, r) ==
    /\ threads' = [threads EXCEPT ![t] = Idle]
    /\ last' = Op(op, 1, initialized[1], NoArg, native, r)

\* Thread t goes on in its method, to the statement pc.
GoesOn(t, op, pc, calls, size, native) ==
    /\ threads' = [threads EXCEPT
                      ![t] = [pc |-> pc, op |-> op, calls |-> calls, size |-> size,
                              native |-> native]]
    /\ UNCHANGED last

\* Thread t enters a method that is one StatusCall and makes the native
\* call (line 326 for set_trigger_mode): with a status other than
\* ERROR_NONE it is left before its call of get_last_error_message; a
\* runMeasurement that succeeds leaves a new result in the library.
T_call(t, op, call) ==
    /\ phase[1] = "live"
    /\ threads[t].pc = "idle"
    /\ \E out \in Answers(sess, call.fn) :
          /\ nativeMsg' = MsgAfter(nativeMsg, call.fn, out)
          /\ sess' = SessionAfter(sess, call.fn, out)
          /\ IF call.fn = "runMeasurement" /\ out = Returned(ERROR_NONE)
             THEN nat' \in ThreadScripts
             ELSE nat' = nat
          /\ IF out.kind = "status" /\ out.status # ERROR_NONE
             THEN GoesOn(t, op, "readback", <<call>>, 0, out)
             ELSE MethodEnds(t, op, out,
                             StatusCall(initialized[1], call, out, nativeMsg))
    /\ UNCHANGED <<phase, initialized, closeCalls, opened>>

T_set_trigger_mode(t) ==
    \E mode \in TriggerModes :
        T_call(t, "set_trigger_mode", Call("setTriggerMode", <<c_int(mode)>>, <<>>))

T_run_measurement(t) ==
    T_call(t, "run_measurement", Call(RunEntry, <<>>, <<>>))

\* Thread t is at error_msg = self.get_last_error_message() (line 328, and
\* lines 541 and 550 of get_result): the message read is the one the
\* library holds now, and the method raises RuntimeError with it.
T_readback(t) ==
    /\ threads[t].pc = "readback"
    /\ LET th == threads[t]
           read == get_last_error_message(nativeMsg)
       IN  MethodEnds(t, th.op, th.native,
                      Ends(initialized[1], th.calls \o read.calls, "RuntimeError",
                           read.text, nativeMsg))
    /\ UNCHANGED <<phase, initialized, nativeMsg, closeCalls, opened, nat, sess>>

\* Thread t enters get_result(0) and makes the size query (lines 538-545).
T_get_result(t) ==
    /\ phase[1] = "live"
    /\ threads[t].pc = "idle"
    /\ LET query == Call("getResult", <<0>>, <<>>)
           out == Returned(nat.qstatus)
           msg1 == MsgAfter(nativeMsg, query.fn, out)
       IN  /\ nativeMsg' = msg1
           /\ IF nat.qstatus # ERROR_NONE
              THEN GoesOn(t, "get_result", "readback", <<query>>, 0, out)
              ELSE IF NoData(nat.qsize)
              THEN MethodEnds(t, "get_result", out,
                              EndsWith(initialized[1], <<query>>, "return", NoMsg,
                                       msg1, Ret(<<>>, <<>>, 0)))
              ELSE GoesOn(t, "get_result", "fetch", <<query>>, nat.qsize, out)
    /\ UNCHANGED <<phase, initialized, closeCalls, opened, nat, sess>>

\* How the fetch may end when the library holds count elements and the
\* buffer has room for cap: with more elements than room the library
\* writes past the buffer, and the call returns or the process faults.
FetchOutcomes(count, cap) ==
    IF count > cap
    THEN {Returned(nat.fstatus), Raised}
    ELSE {Returned(nat.fstatus)}

\* Thread t is at data = (c_double * size.value)() (lines 547-553): the
\* buffer has the size the query of this thread reported, the library
\* answers the fetch from the result it holds now.
T_fetch(t) ==
    /\ threads[t].pc = "fetch"
    /\ LET th == threads[t]
           cap == Capacity(th.size)
           fetch == Call("getResult", th.calls[1].args, <<cap>>)
           calls == th.calls \o <<fetch>>
       IN  \E out \in FetchOutcomes(nat.qsize, cap) :
              LET msg1 == MsgAfter(nativeMsg, fetch.fn, out)
                  re == ReadOut(RealBuffer(cap, nat.fill), nat.fsize)
              IN  /\ nativeMsg' = msg1
                  /\ IF out = Raised
                     THEN MethodEnds(t, th.op, out,
                                     Ends(initialized[1], calls, out.kind, OtherText,
                                          msg1))
                     ELSE IF out.status # ERROR_NONE
                     THEN GoesOn(t, th.op, "readback", calls, nat.fsize, out)
                     ELSE IF ~re.ok
                     THEN MethodEnds(t, th.op, out,
                                     Ends(initialized[1], calls, "IndexError",
                                          OtherText, msg1))
                     ELSE MethodEnds(t, th.op, out,
                                     EndsWith(initialized[1], calls, "return", NoMsg,
                                              msg1, Ret(re.data, <<>>, nat.fsize)))
    /\ UNCHANGED <<phase, initialized, closeCalls, opened, nat, sess>>

\* An open session with a measurement made, used by NumThreads threads.
InitThreads ==
    /\ phase = [i \in Inst |-> IF i = 1 THEN "live" ELSE "absent"]
    /\ initialized = [i \in Inst |-> i = 1]
    /\ nativeMsg = NoMsg
    /\ closeCalls = [i \in Inst |-> 0]
    /\ opened = [i \in Inst |-> i = 1]
    /\ nat \in ThreadScripts
    /\ sess = [NewSession EXCEPT !.measured = TRUE]
    /\ threads = [t \in Threads |-> Idle]
    /\ last = Op("none", 0, FALSE, NoArg, Raised,
                 Ends(FALSE, <<>>, "return", NoMsg, NoMsg))

NextThreads ==
    \/ \E t \in Threads : T_set_trigger_mode(t)
    \/ \E t \in Threads : T_run_measurement(t)
    \/ \E t \in Threads : T_get_result(t)
    \/ \E t \in Threads : T_fetch(t)
    \/ \E t \in Threads : T_readback(t)

SpecThreads == InitThreads /\ [][NextThreads]_vars

\* A process that holds one GlazLib object at a time, as the examples do.
Next ==
    \/ Construct(1)
    \/ set_scan_count(1)
    \/ run_measurement(1)
    \/ Close(1)
    \/ Del(1)

Spec == Init /\ [][Next]_vars

\* A process that makes GlazLib() with no configuration file to be found,
\* and configures, measures and closes in any order.
NextUse ==
    \/ ConstructWith(1, {None}, DeviceArgs, {{}})
    \/ set_scan_count(1)
    \/ set_hardware_averaging(1)
    \/ capture_background(1)
    \/ run_measurement(1)
    \/ start_measurement(1)
    \/ is_measurement_done(1)
    \/ Complete
    \/ Close(1)
    \/ Del(1)

\* The library words its messages in either way.
InitUse ==
    /\ phase = [i \in Inst |-> "absent"]
    /\ initialized = [i \in Inst |-> FALSE]
    /\ nativeMsg = NoMsg
    /\ closeCalls = [i \in Inst |-> 0]
    /\ opened = [i \in Inst |-> FALSE]
    /\ nat \in {[DefaultScript EXCEPT !.texts = t] : t \in TextTables}
    /\ sess = NoSession
    /\ threads = [t \in Threads |-> Idle]
    /\ last = Op("none", 0, FALSE, NoArg, Raised,
                 Ends(FALSE, <<>>, "return", NoMsg, NoMsg))

SpecUse == InitUse /\ [][NextUse]_vars

\* A process that holds up to NumInst GlazLib objects at once, each made
\* by GlazLib() with no configuration file to be found.
NextProcess ==
    \/ \E i \in Inst : ConstructWith(i, {None}, DeviceArgs, {{}})
    \/ \E i \in Inst : set_scan_count(i)
    \/ \E i \in Inst : run_measurement(i)
    \/ \E i \in Inst : Close(i)
    \/ \E i \in Inst : Del(i)

SpecProcess == Init /\ [][NextProcess]_vars

\* examples/basic_example.py, main(): the object is constructed, then one
\* try block makes the calls below in order; whatever a call raises ends the
\* block, and the finally clause closes the session.  The most recent
\* operation tells where main() is.
After(op) == last.op = op /\ last.outcome = "return"

TryOps ==
    {"get_version", "set_trigger_mode", "set_internal_trigger_frequency",
     "set_hardware_averaging", "set_scan_count", "capture_background",
     "run_measurement", "get_result", "start_measurement",
     "is_measurement_done", "get_all_scans_sizes", "get_all_scans"}

\* The file systems main() may run in: single_spectrometer.xml is in the
\* current working directory, or nowhere.
MainFileSystems == {{}, {File("cwd", default_configs[1])}}

InitMain ==
    /\ phase = [i \in Inst |-> "absent"]
    /\ initialized = [i \in Inst |-> FALSE]
    /\ nativeMsg = NoMsg
    /\ closeCalls = [i \in Inst |-> 0]
    /\ opened = [i \in Inst |-> FALSE]
    /\ nat \in SizedScripts \cup MatrixScripts
    /\ sess = NoSession
    /\ threads = [t \in Threads |-> Idle]
    /\ last = Op("none", 0, FALSE, NoArg, Raised,
                 Ends(FALSE, <<>>, "return", NoMsg, NoMsg))

\* GlazLib(config_file="single_spectrometer.xml", allow_demo=True) or, when
\* that raised, GlazLib(allow_demo=True): the constructor call main() ends
\* with.
Main_open ==
    /\ last.op = "none"
    /\ ConstructWith(1, {default_configs[1], None},
                     {d \in DeviceArgs : d.allow_demo}, MainFileSystems)

Main_get_version == After("__init__") /\ get_version(1)
Main_set_trigger_mode == After("get_version") /\ set_trigger_mode_with(1, Py(1))
Main_set_internal_trigger_frequency ==
    After("set_trigger_mode") /\ set_internal_trigger_frequency_with(1, 100)
Main_set_hardware_averaging ==
    After("set_internal_trigger_frequency") /\ set_hardware_averaging_with(1, Py(8))
Main_set_scan_count == After("set_hardware_averaging") /\ set_scan_count_with(1, Py(10))
Main_capture_background == After("set_scan_count") /\ capture_background_with(1, Py(5))
Main_run_measurement == After("capture_background") /\ run_measurement(1)
Main_get_result == After("run_measurement") /\ get_result(1)
Main_start_measurement == After("get_result") /\ start_measurement(1)

\* while not glaz.is_measurement_done(): ...
Main_is_measurement_done ==
    /\ \/ After("start_measurement")
       \/ After("is_measurement_done") /\ last.ret.data = <<FALSE>>
    /\ is_measurement_done(1)

Main_get_all_scans_sizes ==
    /\ After("is_measurement_done") /\ last.ret.data = <<TRUE>>
    /\ get_all_scans_sizes(1)

Main_get_all_scans == After("get_all_scans_sizes") /\ get_all_scans(1)

\* finally: glaz.close()
Main_close ==
    /\ last.op \in TryOps
    /\ last.outcome # "return" \/ last.op = "get_all_scans"
    /\ Close(1)

\* main() is over: the object is destroyed.
Main_exit ==
    /\ last.op = "close" \/ (last.op = "__init__" /\ last.outcome # "return")
    /\ Del(1)

NextMain ==
    \/ Main_open
    \/ Main_get_version
    \/ Main_set_trigger_mode
    \/ Main_set_internal_trigger_frequency
    \/ Main_set_hardware_averaging
    \/ Main_set_scan_count
    \/ Main_capture_background
    \/ Main_run_measurement
    \/ Main_get_result
    \/ Main_start_measurement
    \/ Main_is_measurement_done
    \/ Complete
    \/ Main_get_all_scans_sizes
    \/ Main_get_all_scans
    \/ Main_close
    \/ Main_exit

SpecMain == InitMain /\ [][NextMain]_vars

\* An open session whose results are read: one constructed object, and the
\* native library answering the getters in one of the modelled ways.
InitGet ==
    /\ phase = [i \in Inst |-> IF i = 1 THEN "live" ELSE "absent"]
    /\ initialized = [i \in Inst |-> i = 1]
    /\ nativeMsg = NoMsg
    /\ closeCalls = [i \in Inst |-> 0]
    /\ opened = [i \in Inst |-> i = 1]
    /\ nat \in SizedScripts \cup MatrixScripts
    /\ sess = NewSession
    /\ threads = [t \in Threads |-> Idle]
    /\ last = Op("none", 0, FALSE, NoArg, Raised,
                 Ends(FALSE, <<>>, "return", NoMsg, NoMsg))

NextGet ==
    \/ get_result(1)
    \/ get_complex_result(1)
    \/ get_scan(1)
    \/ get_complex_scan(1)
    \/ get_all_scans(1)
    \/ get_pd_values(1)
    \/ get_aux_states(1)
    \/ get_aux_cycle_counts(1)

SpecGet == InitGet /\ [][NextGet]_vars

---------------------------------------------------------------------------
(* Properties of the session life cycle *)

\* The native initialization calls the last operation made.
InitCalls == {k \in DOMAIN last.calls : last.calls[k].fn \in InitFns}

\* The last operation ran the body of close(): close() itself, or __del__.
RanClose == last.op \in {"close", "__del__"}

\* C1: close() on a session that is already closed -- after an earlier
\* close(), or after a constructor that raised -- returns normally, makes no
\* closeSession call (no native call at all), and leaves the session closed.
Thm_C1_CloseIdempotent ==
    (RanClose /\ ~last.pre) =>
        /\ last.outcome = "return"
        /\ Count(last.calls, "closeSession") = 0
        /\ last.calls = <<>>
        /\ ~initialized[last.inst]

\* A second close() on an object whose first close() called closeSession.
Wit_C1_SecondClose ==
    /\ last.op = "close"
    /\ ~last.pre
    /\ opened[last.inst]
    /\ closeCalls[last.inst] = 1

\* C2: when close() is entered with the session open, the session is marked
\* closed when it ends, whatever closeSession did: success, any other status,
\* or an exception; also when close() itself raises RuntimeError.
Thm_C2_CloseAlwaysMarksClosed ==
    (RanClose /\ last.pre) => ~initialized[last.inst]

\* close() on an open session ended by raising RuntimeError.
Wit_C2_CloseRaised ==
    /\ last.op = "close"
    /\ last.pre
    /\ last.outcome = "RuntimeError"
    /\ ~initialized[last.inst]

\* C3: close() on an open session raises exactly when the status closeSession
\* returned is neither ERROR_NONE nor ERROR_NOT_INITIALISED; for those two it
\* returns normally.
Thm_C3_CloseRaisesIffCritical ==
    (last.op = "close" /\ last.pre /\ last.native.kind = "status") =>
        /\ last.outcome \in {"return", "RuntimeError"}
        /\ (last.outcome = "RuntimeError") <=>
               (last.native.status \notin {ERROR_NONE, ERROR_NOT_INITIALISED})

\* close() on an open session returned normally although closeSession
\* reported ERROR_NOT_INITIALISED.
Wit_C3_BenignStatus ==
    /\ last.op = "close"
    /\ last.pre
    /\ last.native = Returned(ERROR_NOT_INITIALISED)
    /\ last.outcome = "return"

\* C4: an object whose constructor completed calls closeSession exactly once
\* over its lifetime: never more than once, not at all while it is marked
\* open, and exactly once by the time it has been destroyed -- for any number
\* of close() calls before __del__, and whether or not an operation in
\* between raised.
Thm_C4_CloseSessionExactlyOnce ==
    \A i \in Inst :
        opened[i] =>
            /\ closeCalls[i] <= 1
            /\ (phase[i] = "live" /\ initialized[i]) => closeCalls[i] = 0
            /\ (phase[i] = "live" /\ ~initialized[i]) => closeCalls[i] = 1
            /\ phase[i] = "dead" => closeCalls[i] = 1

\* An object that was never closed explicitly is destroyed: __del__ made the
\* one closeSession call.
Wit_C4_ClosedByDel ==
    /\ last.op = "__del__"
    /\ last.pre
    /\ opened[last.inst]
    /\ phase[last.inst] = "dead"
    /\ closeCalls[last.inst] = 1

\* C5: a construction calls at most one of initialiseSession and
\* initialiseSingleDeviceSession, and exactly one when it does not raise.
Thm_C5_OneInitPath ==
    last.op = "__init__" =>
        /\ Cardinality(InitCalls) <= 1
        /\ last.outcome = "return" => Cardinality(InitCalls) = 1

\* A construction that completed through initialiseSingleDeviceSession.
Wit_C5_DeviceTypePath ==
    /\ last.op = "__init__"
    /\ last.outcome = "return"
    /\ Fns(last.calls) = <<"initialiseSingleDeviceSession">>

\* C6: after construction the session is marked open exactly when the native
\* initialization call returned ERROR_NONE; when it returned another status
\* the constructor raised RuntimeError carrying the native message of that
\* call, and the session is marked closed.
Thm_C6_OpenIffInitSucceeded ==
    last.op = "__init__" =>
        /\ initialized[last.inst] <=>
               (InitCalls # {} /\ last.native = Returned(ERROR_NONE))
        /\ (InitCalls # {} /\ last.native.kind = "status"
              /\ last.native.status # ERROR_NONE) =>
               /\ last.outcome = "RuntimeError"
               /\ last.err = NativeMessage(last.calls[1].fn, last.native.status)
               /\ ~initialized[last.inst]

\* A construction whose initialiseSession call returned a failing status.
Wit_C6_InitFailed ==
    /\ last.op = "__init__"
    /\ Count(last.calls, "initialiseSession") = 1
    /\ last.native = Returned(ERROR_SCRIPT)
    /\ last.outcome = "RuntimeError"

\* The constructor was given a config_file that is not an existing file and
\* that the search does not find.
ConfigMissing ==
    /\ last.op = "__init__"
    /\ last.arg.config_file # None
    /\ ~isfile("cwd", last.arg.config_file, last.arg.fs)
    /\ ~find_config_file(last.arg.config_file, last.arg.fs).found

\* C7 as stated: with a config_file that does not exist the constructor goes
\* through the device-type initialization (and either completes with the
\* session open or fails there), never leaving a usable object that is not
\* initialized.
Cex_C7_FallsBackToDeviceType ==
    ConfigMissing =>
        /\ Count(last.calls, "initialiseSingleDeviceSession") = 1
        /\ last.outcome = "return" => initialized[last.inst]

\* C7 as amended: with a config_file that does not exist the constructor
\* raises FileNotFoundError before any native call -- it takes neither
\* initialization path -- and the session is marked closed.
Thm_C7_MissingConfigRaises ==
    ConfigMissing =>
        /\ last.outcome = "FileNotFoundError"
        /\ last.calls = <<>>
        /\ ~initialized[last.inst]
        /\ phase[last.inst] = "failed"

\* A construction with a named config_file that exists nowhere.
Wit_C7_MissingConfig ==
    /\ ConfigMissing
    /\ last.outcome = "FileNotFoundError"

---------------------------------------------------------------------------
(* Properties of the variable-length getters *)

SizedGetters ==
    {"get_result", "get_complex_result", "get_scan", "get_complex_scan",
     "get_pd_values", "get_aux_states", "get_aux_cycle_counts"}

\* The native entry point of each getter, and how many buffers it fills.
NativeFn(op) ==
    CASE op = "get_result" -> "getResult"
      [] op = "get_complex_result" -> "getComplexResult"
      [] op = "get_scan" -> "getScan"
      [] op = "get_complex_scan" -> "getComplexScan"
      [] op = "get_pd_values" -> "getPDValues"
      [] op = "get_aux_states" -> "getAUXStates"
      [] op = "get_aux_cycle_counts" -> "getAUXCycleCounts"
      [] OTHER -> "getAllScans"
NBuf(op) == IF op \in {"get_complex_result", "get_complex_scan"} THEN 2 ELSE 1

\* The size query of the last getter succeeded and reported "no data".
SizedNoData ==
    /\ last.op \in SizedGetters
    /\ nat.qstatus = ERROR_NONE
    /\ nat.qsize <= 0
MatrixNoData ==
    /\ last.op = "get_all_scans"
    /\ nat.zstatus = ERROR_NONE
    /\ (nat.num_scans <= 0 \/ nat.pixels_per_scan <= 0)

\* The size query of the last getter succeeded and reported data.
SizedHasData ==
    /\ last.op \in SizedGetters
    /\ nat.qstatus = ERROR_NONE
    /\ nat.qsize > 0
MatrixHasData ==
    /\ last.op = "get_all_scans"
    /\ nat.zstatus = ERROR_NONE
    /\ nat.num_scans > 0
    /\ nat.pixels_per_scan > 0

\* C8: in every variable-length getter, when the size query succeeds with a
\* count <= 0 (for get_all_scans: either of the two counts <= 0), the size
\* query is the only native call -- no fetch, no buffer -- no error is raised
\* and the containers returned are empty.
Thm_C8_NoDataNoFetch ==
    (SizedNoData \/ MatrixNoData) =>
        /\ last.outcome = "return"
        /\ Len(last.calls) = 1
        /\ last.calls[1].bufs = <<>>
        /\ Count(last.calls, "getAllScans") = 0
        /\ last.ret.data = <<>>
        /\ last.ret.data2 = <<>>

\* get_all_scans returned empty because one of the two counts was 0 while
\* the other was positive.
Wit_C8_OneCountZero ==
    /\ last.op = "get_all_scans"
    /\ MatrixNoData
    /\ nat.num_scans > 0
    /\ nat.pixels_per_scan = 0
    /\ last.outcome = "return"

\* C9: in every variable-length getter, when the size query reports n > 0
\* the fetch is the getter's second native call, it follows the size query of
\* the same getter call with the same arguments, and every buffer passed to
\* it holds exactly n elements (num_scans * pixels_per_scan for
\* get_all_scans): the count the size query just returned.
Thm_C9_BufferExactlyQueriedSize ==
    /\ SizedHasData =>
        /\ Len(last.calls) >= 2
        /\ last.calls[1].fn = NativeFn(last.op)
        /\ last.calls[1].bufs = <<>>
        /\ last.calls[2].fn = NativeFn(last.op)
        /\ last.calls[2].args = last.calls[1].args
        /\ last.calls[2].bufs = [b \in 1..NBuf(last.op) |-> nat.qsize]
        /\ Count(last.calls, NativeFn(last.op)) = 2
    /\ MatrixHasData =>
        /\ Len(last.calls) >= 2
        /\ last.calls[1].fn = "getAllScansSizes"
        /\ last.calls[2].fn = "getAllScans"
        /\ last.calls[2].args = last.calls[1].args
        /\ last.calls[2].bufs = <<nat.num_scans * nat.pixels_per_scan>>
        /\ Count(last.calls, "getAllScans") = 1

\* get_complex_scan fetched into two buffers of the two elements the size
\* query reported.
Wit_C9_TwoBuffersOfTwo ==
    /\ last.op = "get_complex_scan"
    /\ SizedHasData
    /\ nat.qsize = 2
    /\ last.calls[2].bufs = <<2, 2>>

\* C10: when both counts are > 0 and getAllScans succeeds, get_all_scans
\* returns num_scans rows of pixels_per_scan elements, and element (r, c) of
\* the result is element r * pixels_per_scan + c (from 0) of the flat buffer
\* getAllScans filled.
Thm_C10_RowMajor ==
    (MatrixHasData /\ nat.astatus = ERROR_NONE) =>
        /\ last.outcome = "return"
        /\ Len(last.ret.data) = nat.num_scans
        /\ \A r \in 0..(nat.num_scans - 1) :
              /\ Len(last.ret.data[r + 1]) = nat.pixels_per_scan
              /\ \A c \in 0..(nat.pixels_per_scan - 1) :
                    last.ret.data[r + 1][c + 1] =
                        Sample(nat.fill, r * nat.pixels_per_scan + c + 1)

\* get_all_scans returned a 2 x 2 array whose row 1, column 0 is element 2 of
\* the flat buffer.
Wit_C10_TwoByTwo ==
    /\ MatrixHasData
    /\ nat.astatus = ERROR_NONE
    /\ nat.num_scans = 2
    /\ nat.pixels_per_scan = 2
    /\ nat.fill = "ramp"
    /\ last.outcome = "return"
    /\ last.ret.data[2][1] = 3


---------------------------------------------------------------------------
(* Properties of the measurement sequence *)

\* The native library answers get_result as a device that has data does:
\* the size query reports a positive count and the fetch leaves it as it is.
HasResult == nat.qstatus = ERROR_NONE /\ nat.fstatus = ERROR_NONE
             /\ nat.qsize > 0 /\ nat.fsize = nat.qsize

\* C11: in main()'s sequence open, set_scan_count, capture_background,
\* run_measurement, get_result, a get_result that returns gives (data, size)
\* with len(data) = size, and size > 0 when the device has data; the close()
\* that follows returns normally when closeSession succeeds; and every
\* return of get_result has len(data) = size.
Cex_C11_ResultLengthIsSize ==
    /\ (last.op = "get_result" /\ last.outcome = "return")
          => /\ Len(last.ret.data) = last.ret.size
             /\ HasResult => last.ret.size > 0
    /\ (last.op = "close" /\ last.pre /\ last.native = Returned(ERROR_NONE))
          => last.outcome = "return"


\* The methods that configure the session or acquire: each is one status
\* call.
ConfigOps ==
    {"set_scan_count", "set_trigger_mode", "set_internal_trigger_frequency",
     "set_hardware_averaging"}
SessionOps ==
    ConfigOps \cup {"capture_background", "run_measurement",
                    "start_measurement", "is_measurement_done"}

\* C12: a configuration or acquisition call made on an object whose session
\* is not open (close() has marked it closed) fails with the "not
\* initialised" error and does not complete.
Cex_C12_ClosedSessionRejects ==
    (last.op \in SessionOps /\ ~last.pre)
        => /\ last.outcome = "RuntimeError"
           /\ last.err = NativeMessage(last.calls[1].fn, ERROR_NOT_INITIALISED)


\* C13: at most one GlazLib object is marked open at any time.
Cex_C13_OneOpenSession ==
    Cardinality({i \in Inst : initialized[i]}) <= 1


\* C14: a configuration call that fails with a native status leaves the
\* object as it was: the open flag is unchanged, closeSession is not
\* called, and the next call on the object is still forwarded to the native
\* library, where it succeeds if the native session answers so.
Thm_C14_FailedSetLeavesOpen ==
    (last.op \in ConfigOps /\ last.outcome = "RuntimeError")
        => /\ initialized[last.inst] = last.pre
           /\ phase[last.inst] = "live"
           /\ Count(last.calls, "closeSession") = 0
           /\ sess.open =>
                 ENABLED (/\ set_scan_count(last.inst)
                          /\ Fns(last'.calls) = <<"setScanCount">>
                          /\ last'.outcome = "return")

Wit_C14_AveragingRejected ==
    /\ last.op = "set_hardware_averaging" /\ last.outcome = "RuntimeError"
    /\ last.native = Returned(ERROR_SCRIPT)
    /\ initialized[1] /\ sess.open


---------------------------------------------------------------------------
(* Properties of the status check *)

MatrixGetters == {"get_all_scans", "get_all_scans_sizes"}

\* The native calls of the last operation whose integer status it looks at:
\* every call but the message read-back and getVersion, which returns
\* nothing.
CheckedCalls ==
    {k \in DOMAIN last.calls :
        /\ last.calls[k].fn \notin {"getLastErrorMessage", "getVersion"}
        /\ last.op \in SizedGetters \cup MatrixGetters \/ last.native.kind = "status"}

\* The status call k of the last operation returned.
StatusOfCall(k) ==
    IF last.op \in SizedGetters
    THEN IF k = 1 THEN nat.qstatus ELSE nat.fstatus
    ELSE IF last.op \in MatrixGetters
    THEN IF k = 1 THEN nat.zstatus ELSE nat.astatus
    ELSE last.native.status

\* Call k of the last operation is followed at once by the message
\* read-back, made with a buffer of 1024 bytes.
ReadBackFollows(k) ==
    /\ k + 1 \in DOMAIN last.calls
    /\ last.calls[k + 1] = Call("getLastErrorMessage", <<>>, <<1024>>)

\* The last operation raised RuntimeError carrying the message of call k.
RaisedMessageOf(k) ==
    /\ last.outcome = "RuntimeError"
    /\ last.err = NativeMessage(last.calls[k].fn, StatusOfCall(k))

AllSucceeded ==
    CheckedCalls # {} /\ \A k \in CheckedCalls : StatusOfCall(k) = ERROR_NONE

\* C15 as stated: a status other than success is followed at once by the
\* message read-back and the operation raises an error carrying the
\* message; with success there is no read-back and no error.
Cex_C15_StatusCheckAlwaysRaises ==
    /\ \A k \in CheckedCalls :
          StatusOfCall(k) # ERROR_NONE => ReadBackFollows(k) /\ RaisedMessageOf(k)
    /\ AllSucceeded
          => Count(last.calls, "getLastErrorMessage") = 0 /\ last.outcome = "return"

\* The one status that an operation reads the message for and then lets
\* pass: ERROR_NOT_INITIALISED in close(), also when __del__ calls it.
Suppressed(k) ==
    last.op \in {"close", "__del__"} /\ StatusOfCall(k) = ERROR_NOT_INITIALISED

\* C15: a status other than success is followed at once by the message
\* read-back with a 1024-byte buffer, and the operation raises RuntimeError
\* carrying the message, except that close() returns normally after the
\* read-back when the status is ERROR_NOT_INITIALISED; with success there is
\* no read-back and no RuntimeError.
Thm_C15_StatusCheck ==
    /\ \A k \in CheckedCalls :
          StatusOfCall(k) # ERROR_NONE
             => /\ ReadBackFollows(k)
                /\ IF Suppressed(k)
                   THEN last.outcome = "return"
                   ELSE RaisedMessageOf(k)
    /\ AllSucceeded
          => /\ Count(last.calls, "getLastErrorMessage") = 0
             /\ last.outcome \in {"return", "IndexError"}

Wit_C15_CloseLetsPass ==
    /\ last.op = "close" /\ last.pre
    /\ last.native = Returned(ERROR_NOT_INITIALISED)
    /\ Fns(last.calls) = <<"closeSession", "getLastErrorMessage">>
    /\ last.outcome = "return"


\* What the RuntimeError of operation l carries: one string, made of a
\* fixed text that names the operation and of the text of the message read
\* back.
RuntimeErrorOf(l) == [label |-> l.op, text |-> TextOf(nat.texts, l.err)]

\* Operation l raised because its native call returned a status other than
\* success.
StatusFailure(l) ==
    /\ l.op \in SessionOps
    /\ l.outcome = "RuntimeError"
    /\ l.native.kind = "status" /\ l.native.status # ERROR_NONE

\* C16: the error raised for a status other than success carries the status
\* code: two failures of an operation with different status codes raise
\* errors that differ.
Cex_C16_ErrorsDifferByCode ==
    [][(/\ StatusFailure(last) /\ StatusFailure(last')
        /\ last'.op = last.op
        /\ last'.native.status # last.native.status)
          => RuntimeErrorOf(last') # RuntimeErrorOf(last)]_vars


\* The native entry point of each configuration and acquisition method.
EntryPoint(op) ==
    CASE op = "set_scan_count" -> "setScanCount"
      [] op = "set_trigger_mode" -> "setTriggerMode"
      [] op = "set_internal_trigger_frequency" -> "setInternalTriggerFrequency"
      [] op = "set_hardware_averaging" -> "setHardwareAveraging"
      [] op = "capture_background" -> "captureBackground"
      [] op = "run_measurement" -> "runMeasurement"
      [] op = "start_measurement" -> "startMeasurement"
      [] OTHER -> "isMeasurementDone"

\* The size queries and the fetches of the last getter: a size query hands
\* the entry point no buffer to fill (get_all_scans asks getAllScansSizes).
SizeQueries ==
    {k \in DOMAIN last.calls :
        \/ last.calls[k].fn = "getAllScansSizes"
        \/ last.op \in SizedGetters /\ last.calls[k].fn = NativeFn(last.op)
                                    /\ last.calls[k].bufs = <<>>}
Fetches ==
    {k \in DOMAIN last.calls :
        /\ last.calls[k].fn = NativeFn(last.op)
        /\ last.calls[k].bufs # <<>>}

\* C17: no native call is retried: a configuration or acquisition method
\* calls its entry point exactly once, a getter makes at most one size
\* query and at most one fetch, and an entry point that returned a status
\* other than success is not called again in the same operation.
Thm_C17_NoRetry ==
    /\ last.op \in SessionOps => Count(last.calls, EntryPoint(last.op)) = 1
    /\ last.op \in SizedGetters \cup MatrixGetters
          => Cardinality(SizeQueries) <= 1 /\ Cardinality(Fetches) <= 1
    /\ \A k \in CheckedCalls :
          StatusOfCall(k) # ERROR_NONE
             => \A j \in DOMAIN last.calls : j > k => last.calls[j].fn # last.calls[k].fn

Wit_C17_FetchFailedOnce ==
    /\ last.op = "get_result" /\ last.outcome = "RuntimeError"
    /\ nat.qstatus = ERROR_NONE /\ nat.fstatus # ERROR_NONE
    /\ Fns(last.calls) = <<"getResult", "getResult", "getLastErrorMessage">>


---------------------------------------------------------------------------
(* Properties of the session state machine *)

\* The state of the session of object i: Closed while the object is not
\* marked open, Acquiring while an acquisition started by start_measurement
\* is in flight, Ready otherwise.
SessionState(i) ==
    IF ~initialized[i] THEN "Closed"
    ELSE IF sess.acquiring THEN "Acquiring"
    ELSE "Ready"

\* The operation the step ends with is one of the methods ops, and it
\* returned normally; or it is one of them, however it ended.
ReturnedFrom(ops) == last'.op \in ops /\ last'.outcome = "return"
CalledOneOf(ops) == last'.op \in ops

\* C18: every change of the session state is a documented transition:
\* Closed to Ready by a constructor that returns; Ready to Acquiring by
\* run_measurement or start_measurement; Acquiring to Ready when the
\* acquisition completes; to Closed by close() alone (also when __del__
\* calls it); and after close() the state is Closed.
Thm_C18_DocumentedTransitions ==
    [][/\ SessionState(1) # SessionState(1)' =>
            \/ /\ SessionState(1) = "Closed" /\ SessionState(1)' = "Ready"
               /\ ReturnedFrom({"__init__"})
            \/ /\ SessionState(1) = "Ready" /\ SessionState(1)' = "Acquiring"
               /\ ReturnedFrom({"run_measurement", "start_measurement"})
            \/ /\ SessionState(1) = "Acquiring" /\ SessionState(1)' = "Ready"
               /\ last' = last \/ ReturnedFrom({"run_measurement"})
            \/ /\ SessionState(1)' = "Closed"
               /\ CalledOneOf({"close", "__del__"})
       /\ CalledOneOf({"close"}) => SessionState(1)' = "Closed"]_vars

Wit_C18_AcquisitionCompleted ==
    /\ last.op = "start_measurement" /\ last.outcome = "return"
    /\ sess.measured
    /\ SessionState(1) = "Ready"


\* C19: while an acquisition started by start_measurement is in flight, a
\* call of start_measurement is kept from the native library, no second
\* startMeasurement being issued, or at least it ends in an error: it never
\* reaches the native library and returns normally.
Cex_C19_NoSecondStart ==
    [][(/\ sess.open /\ sess.acquiring
        /\ last' # last /\ last'.op = "start_measurement")
          => \/ Count(last'.calls, "startMeasurement") = 0
             \/ last'.outcome # "return"]_vars


\* C20: run_measurement is synchronous: it returns normally exactly when
\* the blocking runMeasurement returned success, and then the native
\* session is open with no acquisition in flight and a measurement complete;
\* when runMeasurement fails it raises.
Thm_C20_RunIsSynchronous ==
    last.op = "run_measurement"
        => /\ last.outcome = "return" <=> last.native = Returned(ERROR_NONE)
           /\ last.outcome = "return"
                 => /\ Fns(last.calls) = <<"runMeasurement">>
                    /\ sess.open /\ ~sess.acquiring /\ sess.measured
           /\ (last.native.kind = "status" /\ last.native.status # ERROR_NONE)
                 => last.outcome = "RuntimeError"

Wit_C20_RunReturned ==
    /\ last.op = "run_measurement" /\ last.outcome = "return"
    /\ last.pre /\ sess.measured


---------------------------------------------------------------------------
(* Properties of polling *)

\* C21: a call of is_measurement_done makes one native call, the
\* isMeasurementDone query, handing it one c_bool; it leaves the open flag
\* of the object and the progress of the acquisition as they were; and
\* when the query succeeds it returns False while the acquisition is in
\* flight and True once it has completed.
Thm_C21_PollingIsPure ==
    [][is_measurement_done(1) =>
          /\ Fns(last'.calls)[1] = "isMeasurementDone"
          /\ Count(last'.calls, "isMeasurementDone") = 1
          /\ last'.calls[1].bufs = <<1>>
          /\ initialized' = initialized
          /\ sess'.acquiring = sess.acquiring
          /\ sess'.measured = sess.measured
          /\ last'.native = Returned(ERROR_NONE) =>
                /\ last'.outcome = "return"
                /\ Len(last'.calls) = 1
                /\ last'.ret.data = <<~sess.acquiring>>]_vars

\* A poll made while the acquisition was in flight returned False, and the
\* acquisition is still in flight.
Wit_C21_PolledInFlight ==
    /\ last.op = "is_measurement_done" /\ last.outcome = "return"
    /\ last.ret.data = <<FALSE>>
    /\ initialized[1] /\ sess.open /\ sess.acquiring


---------------------------------------------------------------------------
(* Properties of the choice of initialization *)

\* A default configuration file exists in one of the search directories of
\* file system fs.
DefaultExists(fs) ==
    \E c \in DOMAIN default_configs, k \in DOMAIN search_dirs :
        File(search_dirs[k], default_configs[c]) \in fs

\* C26: the constructor calls initialiseSingleDeviceSession, with
\* device_type, use_defaults and allow_demo, if and only if config_file is
\* None and no default configuration file exists in a search directory;
\* when config_file is None and a default file exists, its one
\* initialization call is initialiseSession with the path of a default
\* file that exists, and none of the three device arguments is passed.
Thm_C26_DeviceTypeIffNoDefault ==
    last.op = "__init__" =>
        LET a == last.arg
            device == {k \in DOMAIN last.calls :
                          last.calls[k].fn = "initialiseSingleDeviceSession"}
        IN  /\ device # {} <=> (a.config_file = None /\ ~DefaultExists(a.fs))
            /\ \A k \in device :
                  last.calls[k].args =
                      <<a.dev.device_type, a.dev.use_defaults, a.dev.allow_demo>>
            /\ (a.config_file = None /\ DefaultExists(a.fs)) =>
                  /\ last.calls[1].fn = "initialiseSession"
                  /\ Len(last.calls[1].args) = 1
                  /\ last.calls[1].args[1] \in a.fs
                  /\ last.calls[1].args[1].name \in
                         {default_configs[c] : c \in DOMAIN default_configs}
                  /\ Count(last.calls, "initialiseSession") = 1

\* GlazLib(device_type=..., use_defaults=False, allow_demo=False) found
\* double_spectrometer.xml and opened the session from it.
Wit_C26_DefaultFileWins ==
    /\ last.op = "__init__" /\ last.outcome = "return"
    /\ last.arg.config_file = None
    /\ ~last.arg.dev.use_defaults /\ ~last.arg.dev.allow_demo
    /\ \E k \in DOMAIN search_dirs :
          last.calls = <<Call("initialiseSession",
                              <<File(search_dirs[k], default_configs[2])>>, <<>>)>>


---------------------------------------------------------------------------
(* Properties of the configuration-file search *)

\* File name n exists in some search directory of fs; and the file of that
\* name in the earliest search directory that holds one.
ExistsIn(n, fs) == \E k \in DOMAIN search_dirs : File(search_dirs[k], n) \in fs
Earliest(n, fs) ==
    File(search_dirs[CHOOSE k \in DOMAIN search_dirs :
                        /\ File(search_dirs[k], n) \in fs
                        /\ \A j \in 1..(k - 1) : File(search_dirs[j], n) \notin fs],
         n)

\* The file name looked for when config_name is n: n itself when it ends in
\* .xml in any case, n with .xml appended otherwise.
Candidate(n) ==
    IF n.ext \in {".xml", ".XML"} THEN n ELSE Name(n.stem, n.ext \o ".xml")

\* C27: find_config_file returns the first match in search order: for a
\* named config the candidate in the earliest search directory; for None
\* single_spectrometer.xml wherever it is, before double_spectrometer.xml;
\* and it raises FileNotFoundError exactly when no candidate exists in any
\* search directory.
Thm_C27_FirstMatch ==
    last.op = "find_config_file" =>
        LET n == last.arg.config_file
            fs == last.arg.fs
            single == default_configs[1]
            double == default_configs[2]
        IN  IF n = None
            THEN /\ last.outcome = "FileNotFoundError"
                       <=> ~ExistsIn(single, fs) /\ ~ExistsIn(double, fs)
                 /\ ExistsIn(single, fs)
                       => last.outcome = "return"
                          /\ last.ret.data = <<Earliest(single, fs)>>
                 /\ (~ExistsIn(single, fs) /\ ExistsIn(double, fs))
                       => last.outcome = "return"
                          /\ last.ret.data = <<Earliest(double, fs)>>
            ELSE /\ last.outcome = "FileNotFoundError" <=> ~ExistsIn(Candidate(n), fs)
                 /\ ExistsIn(Candidate(n), fs)
                       => last.outcome = "return"
                          /\ last.ret.data = <<Earliest(Candidate(n), fs)>>

\* find_config_file() returned single_spectrometer.xml of the last search
\* directory although double_spectrometer.xml is in the first.
Wit_C27_SingleBeforeDouble ==
    /\ last.op = "find_config_file" /\ last.arg.config_file = None
    /\ last.arg.fs = {File(search_dirs[3], default_configs[1]),
                      File(search_dirs[1], default_configs[2])}
    /\ last.ret.data = <<File(search_dirs[3], default_configs[1])>>


---------------------------------------------------------------------------
(* Properties of the read-out *)

\* C29: in every getter that passes the size by reference to both phases,
\* when the fetch succeeds the getter returns, and the number of elements
\* it read out of each buffer and the size it returns are the count the
\* size query reported, which is the capacity of the buffer, whatever
\* count the fetch left in the size parameter; no index at or beyond the
\* capacity is asked for, so no IndexError is raised.
Cex_C29_ReadOutIsQueriedCount ==
    (SizedHasData /\ nat.fstatus = ERROR_NONE) =>
        /\ last.outcome = "return"
        /\ Len(last.ret.data) = nat.qsize
        /\ NBuf(last.op) = 2 => Len(last.ret.data2) = nat.qsize
        /\ last.ret.size = nat.qsize
        /\ last.ret.size = last.calls[2].bufs[1]


---------------------------------------------------------------------------
(* Properties of several objects in one process *)

\* C28: an object is marked open only if the native session is open; here
\* for the states the claim singles out, those a close() that called
\* closeSession leaves: closing one object leaves no object marked open on
\* a closed native session.
Cex_C28_OpenFlagTracksNative ==
    (RanClose /\ Count(last.calls, "closeSession") = 1)
        => \A j \in Inst : initialized[j] => sess.open


---------------------------------------------------------------------------
(* Properties of the configuration calls *)

\* The C value a is the Python int v.
SameValue(v, a) == v.hi = 0 /\ v.lo = a

\* C24: a set_* method makes exactly one call to its native setter, with
\* the value it was called with, whatever the value and whatever was
\* configured before; and, the native call having returned a status, the
\* method raises if and only if the status is not success.
Cex_C24_ForwardedUnchanged ==
    (last.op \in ConfigOps /\ last.native.kind = "status") =>
        /\ Count(last.calls, EntryPoint(last.op)) = 1
        /\ last.calls[1].fn = EntryPoint(last.op)
        /\ Len(last.calls[1].args) = 1
        /\ IF last.op = "set_internal_trigger_frequency"
           THEN last.calls[1].args[1] = last.arg.value[1]
           ELSE SameValue(last.arg.value[1], last.calls[1].args[1])
        /\ last.outcome # "return" <=> last.native.status # ERROR_NONE


\* C25: when the native setUSBParameters call completes without reporting
\* a failure, set_usb_parameters returns normally and does not read the
\* last-error message.
Cex_C25_UsbReturnsOnSuccess ==
    (last.op = "set_usb_parameters" /\ last.native = ReturnedNone) =>
        /\ last.outcome = "return"
        /\ Count(last.calls, "getLastErrorMessage") = 0


---------------------------------------------------------------------------
(* Properties of threads that share the session *)

\* C22: the size query and the fetch of a getter are one atomic unit: when
\* a thread makes its fetch, the buffer it passes has the size of the
\* count the library reports now, no native call of another thread having
\* changed the result since the size query.
Cex_C22_FetchSizedFromCurrentCount ==
    [][\A t \in Threads :
          (threads[t].pc = "fetch" /\ threads'[t].pc # "fetch")
              => Capacity(threads[t].size) = nat.qsize]_vars


\* C23: the message a RuntimeError carries is the one the failing native
\* call of the same method wrote: the call made just before the read-back,
\* with the status it returned.
Cex_C23_MessageOfFailingCall ==
    (last.outcome = "RuntimeError" /\ last.native.kind = "status"
                                   /\ Len(last.calls) >= 2) =>
        LET k == Len(last.calls) - 1
        IN  /\ last.calls[k + 1].fn = "getLastErrorMessage"
            /\ last.err = NativeMessage(last.calls[k].fn, last.native.status)

===========================================================================
